---- MODULE Spec2Model ----
(***************************************************************************)
(* Model of the rule-language parser of guarding (src/src/parser/mod.rs).  *)
(*                                                                         *)
(* Strings are sequences of Unicode code points (a Rust `char` is its      *)
(* scalar value); `str::len()` is the UTF-8 byte length of the sequence.   *)
(* A pest `Pair<Rule>` is a node [rule, str, inner]: the grammar rule that *)
(* produced it, the text it spans and its children in document order.      *)
(* Option and Result values are sequences of length 0 (None / Err) or 1    *)
(* (Some(v) / Ok(v)).  A function that can panic yields Return(v) when it  *)
(* returns v and Panic(message) when it panics.                            *)
(***************************************************************************)
EXTENDS Integers, Sequences, FiniteSets, TLC

VARIABLES
    input,          \* unescape: the argument `string`
    output,         \* unescape: the returned Option<String>
    parent,         \* parse_operator: the operator node
    operators,      \* parse_operator: the returned Vec<Operator> (or a panic)
    kids,           \* parse_normal_rule: the children of the normal_rule node
    guard_rule,     \* parse_normal_rule: the returned GuardRule (or a panic)
    pairs,          \* consume_rules_with_spans: the top-level pairs
    rules,          \* consume_rules_with_spans: the returned Vec<GuardRule> (or a panic)
    default_level   \* the level of GuardRule::default()

vars == <<input, output, parent, operators, kids, guard_rule, pairs, rules, default_level>>

(***************************************************************************)
(* Bounds of the model.                                                    *)
(***************************************************************************)
MaxLen == 4         \* longest input built character by character
MaxHexRun == 7      \* longest run between the braces of a \u{...} escape
MaxOpKids == 2      \* most children of an operator node
MaxKids == 3        \* most children of a normal_rule node
MaxPairs == 3       \* most top-level pairs

(***************************************************************************)
(* Characters.                                                             *)
(***************************************************************************)
CH_NUL == 0
CH_TAB == 9
CH_LF == 10
CH_CR == 13
CH_QUOTE == 34
CH_APOSTROPHE == 39
CH_PLUS == 43
CH_MINUS == 45
CH_0 == 48
CH_BACKSLASH == 92
CH_n == 110
CH_r == 114
CH_t == 116
CH_u == 117
CH_x == 120
CH_LBRACE == 123
CH_RBRACE == 125

None == <<>>
Some(v) == <<v>>

\* UTF-8 length of one char
len_utf8(c) ==
    IF c < 128 THEN 1 ELSE IF c < 2048 THEN 2 ELSE IF c < 65536 THEN 3 ELSE 4

RECURSIVE str_len(_)
\* str::len(): the number of bytes of the string
str_len(s) == IF s = <<>> THEN 0 ELSE len_utf8(Head(s)) + str_len(Tail(s))

\* Iterator::take(n).collect()
take(s, n) == SubSeq(s, 1, IF Len(s) < n THEN Len(s) ELSE n)

\* the iterator after k successful calls of next()
advance(s, k) == SubSeq(s, k + 1, Len(s))

RECURSIVE take_while_not(_, _)
\* Iterator::take_while(|c| *c != stop).collect()
take_while_not(s, stop) ==
    IF s = <<>> \/ Head(s) = stop THEN <<>>
    ELSE <<Head(s)>> \o take_while_not(Tail(s), stop)

\* char::to_digit(16): Some(value) for 0-9, a-f, A-F
to_digit(c) ==
    IF c >= 48 /\ c <= 57 THEN Some(c - 48)
    ELSE IF c >= 97 /\ c <= 102 THEN Some(c - 87)
    ELSE IF c >= 65 /\ c <= 70 THEN Some(c - 55)
    ELSE None

RECURSIVE digits_value(_, _, _)
\* the digit loop of from_str_radix for an unsigned type of the given width:
\* Err on a non-digit, or when acc * 16 + digit overflows the type (the
\* sum fits exactly when acc < 2^(bits - 4))
digits_value(digits, acc, bits) ==
    IF digits = <<>> THEN Some(acc)
    ELSE LET d == to_digit(Head(digits)) IN
         IF d = None THEN None
         ELSE IF acc >= 2 ^ (bits - 4) THEN None
         ELSE digits_value(Tail(digits), acc * 16 + d[1], bits)

\* uN::from_str_radix(src, 16) of an unsigned type of the given width:
\* an optional leading '+', then at least one digit; '-' is no digit.
from_str_radix(src, bits) ==
    IF src = <<>> THEN None
    ELSE IF Len(src) = 1 /\ Head(src) \in {CH_PLUS, CH_MINUS} THEN None
    ELSE IF Head(src) = CH_PLUS THEN digits_value(Tail(src), 0, bits)
    ELSE digits_value(src, 0, bits)

U8_BITS == 8
U32_BITS == 32
SURROGATE_FIRST == 55296
SURROGATE_LAST == 57343
CHAR_MAX == 1114111

\* char::from_u32 without the surrogate test
char_from_u32_above_max_only(value) ==
    IF value > CHAR_MAX THEN None ELSE Some(value)

\* char::from_u32: None for a surrogate or a value above char::MAX
char_from_u32(value) ==
    IF value > CHAR_MAX \/ (value >= SURROGATE_FIRST /\ value <= SURROGATE_LAST)
    THEN None
    ELSE Some(value)

\* the single-character escapes without the arm of '0'
simple_escape_no_nul(c) ==
    IF c = CH_QUOTE THEN Some(CH_QUOTE)
    ELSE IF c = CH_BACKSLASH THEN Some(CH_BACKSLASH)
    ELSE IF c = CH_r THEN Some(CH_CR)
    ELSE IF c = CH_n THEN Some(CH_LF)
    ELSE IF c = CH_t THEN Some(CH_TAB)
    ELSE IF c = CH_APOSTROPHE THEN Some(CH_APOSTROPHE)
    ELSE None

\* the single-character escapes of unescape: Some(decoded) or None
simple_escape(c) ==
    IF c = CH_QUOTE THEN Some(CH_QUOTE)
    ELSE IF c = CH_BACKSLASH THEN Some(CH_BACKSLASH)
    ELSE IF c = CH_r THEN Some(CH_CR)
    ELSE IF c = CH_n THEN Some(CH_LF)
    ELSE IF c = CH_t THEN Some(CH_TAB)
    ELSE IF c = CH_0 THEN Some(CH_NUL)
    ELSE IF c = CH_APOSTROPHE THEN Some(CH_APOSTROPHE)
    ELSE None

\* the 'x' arm: chars is the iterator after the x.  <<>> when unescape
\* returns None, else <<value, rest of the iterator>>.
escape_x(chars) ==
    LET string == take(chars, 2) IN
    IF str_len(string) # 2 THEN None
    ELSE IF Len(chars) < str_len(string) THEN None
    ELSE LET value == from_str_radix(string, U8_BITS) IN
         IF value = None THEN None
         ELSE <<value[1], advance(chars, str_len(string))>>

\* the 'u' arm advancing over the run but not over the closing brace
escape_u_keeps_brace(chars) ==
    IF chars = <<>> THEN None
    ELSE IF Head(chars) # CH_LBRACE THEN None
    ELSE LET rest == Tail(chars)
             string == take_while_not(rest, CH_RBRACE)
         IN
         IF str_len(string) < 2 \/ 6 < str_len(string) THEN None
         ELSE IF Len(rest) < str_len(string) THEN None
         ELSE LET value == from_str_radix(string, U32_BITS) IN
              IF value = None THEN None
              ELSE LET c == char_from_u32(value[1]) IN
                   IF c = None THEN None
                   ELSE <<c[1], advance(rest, str_len(string))>>

\* the 'u' arm: chars is the iterator after the u.
escape_u(chars) ==
    IF chars = <<>> THEN None
    ELSE IF Head(chars) # CH_LBRACE THEN None
    ELSE LET rest == Tail(chars)
             string == take_while_not(rest, CH_RBRACE)
         IN
         IF str_len(string) < 2 \/ 6 < str_len(string) THEN None
         ELSE IF Len(rest) < str_len(string) + 1 THEN None
         ELSE LET value == from_str_radix(string, U32_BITS) IN
              IF value = None THEN None
              ELSE LET c == char_from_u32(value[1]) IN
                   IF c = None THEN None
                   ELSE <<c[1], advance(rest, str_len(string) + 1)>>

RECURSIVE unescape_loop(_, _)
\* the loop of unescape: chars is the iterator, result the String so far
unescape_loop(chars, result) ==
    IF chars = <<>> THEN Some(result)
    ELSE IF Head(chars) # CH_BACKSLASH
    THEN unescape_loop(Tail(chars), Append(result, Head(chars)))
    ELSE IF Tail(chars) = <<>> THEN None
    ELSE LET c == Head(Tail(chars))
             rest == Tail(Tail(chars))
         IN
         IF simple_escape(c) # None
         THEN unescape_loop(rest, Append(result, simple_escape(c)[1]))
         ELSE IF c = CH_x
         THEN LET r == escape_x(rest) IN
              IF r = None THEN None ELSE unescape_loop(r[2], Append(result, r[1]))
         ELSE IF c = CH_u
         THEN LET r == escape_u(rest) IN
              IF r = None THEN None ELSE unescape_loop(r[2], Append(result, r[1]))
         ELSE None

unescape(string) == unescape_loop(string, <<>>)

(***************************************************************************)
(* The parse tree and the AST.                                             *)
(***************************************************************************)
Node(rule, str, inner) == [rule |-> rule, str |-> str, inner |-> inner]

Return(v) == [returned |-> TRUE, value |-> v]

Panic(message) == [returned |-> FALSE, panic |-> message]

IsPanic(r) == ~r.returned

\* Option::unwrap() on None
UnwrapNone == Panic("called Option::unwrap() on a None value")

STR_module == <<109, 111, 100, 117, 108, 101>>
STR_package == <<112, 97, 99, 107, 97, 103, 101>>
STR_function == <<102, 117, 110, 99, 116, 105, 111, 110>>
STR_file == <<102, 105, 108, 101>>
STR_class == <<99, 108, 97, 115, 115>>

RuleLevel == {"Module", "Package", "Function", "File", "Class"}

RuleScope_All == [kind |-> "All"]

RuleScope_PathDefine(string) == [kind |-> "PathDefine", path |-> string]

Expr_PropsCall(call_chains) == [kind |-> "PropsCall", chain |-> call_chains]

RuleAssert_Empty == "Empty"

\* GuardRule::default(): the empty record; its level is one of the five
GuardRule_default ==
    [level |-> default_level,
     scope |-> RuleScope_All,
     expr |-> Expr_PropsCall(<<>>),
     ops |-> <<>>,
     assert |-> RuleAssert_Empty]

\* the closed lookup of parse_operator: Some(operator) or None
operator_of(rule) ==
    CASE rule = "op_lte" -> Some("Lte")
      [] rule = "op_gte" -> Some("Gte")
      [] rule = "op_lt" -> Some("Lt")
      [] rule = "op_gt" -> Some("Gt")
      [] rule = "op_eq" -> Some("Eq")
      [] rule = "op_contains" -> Some("Contains")
      [] rule = "op_endsWith" -> Some("Endswith")
      [] rule = "op_startsWith" -> Some("StartsWith")
      [] rule = "op_resideIn" -> Some("ResideIn")
      [] rule = "op_accessed" -> Some("Accessed")
      [] rule = "op_dependBy" -> Some("DependBy")
      [] OTHER -> None

\* the negation test matching the word form only
operator_pair_word_only(prnt) ==
    LET prs == prnt.inner IN
    IF prs = <<>> THEN <<>>
    ELSE IF prs[1].rule = "op_not"
    THEN IF Len(prs) < 2 THEN <<>>
         ELSE IF prs[2].inner = <<>> THEN <<>>
         ELSE <<(<<"Not">>), prs[2].inner[1]>>
    ELSE <<(<<>>), prs[1]>>

\* the node parse_operator maps after the negation test: <<>> when an
\* unwrap() fails, else <<operators so far, pair>>
operator_pair(prnt) ==
    LET prs == prnt.inner IN
    IF prs = <<>> THEN <<>>
    ELSE IF prs[1].rule \in {"op_not", "op_not_symbol"}
    THEN IF Len(prs) < 2 THEN <<>>
         ELSE IF prs[2].inner = <<>> THEN <<>>
         ELSE <<(<<"Not">>), prs[2].inner[1]>>
    ELSE <<(<<>>), prs[1]>>

\* the end of parse_operator: operators.push(ops), or the panic of the match
push_operator(found, ops) ==
    IF found = <<>> THEN UnwrapNone
    ELSE IF ops = None THEN Panic("implementing ops")
    ELSE Return(Append(found[1], ops[1]))

\* the rule of the node parse_operator maps
found_rule(found) == IF found = <<>> THEN "" ELSE found[2].rule

operator_found(found) == push_operator(found, operator_of(found_rule(found)))

parse_operator(prnt) == operator_found(operator_pair(prnt))

RECURSIVE identifiers(_)
\* the texts of the identifier children, in document order
identifiers(prs) ==
    IF prs = <<>> THEN <<>>
    ELSE IF Head(prs).rule = "identifier"
    THEN <<Head(prs).str>> \o identifiers(Tail(prs))
    ELSE identifiers(Tail(prs))

parse_expr(prnt) ==
    IF prnt.inner = <<>> THEN UnwrapNone
    ELSE IF prnt.inner[1].rule = "fn_call"
    THEN Return(Expr_PropsCall(identifiers(prnt.inner[1].inner)))
    ELSE Panic("implementing expr")

parse_assert(prnt) == RuleAssert_Empty

\* the scope of a literal that decoded to string: Option<String>::expect
scope_of_string(string) ==
    IF string = None THEN Panic("incorrect string literal")
    ELSE Return(RuleScope_PathDefine(string[1]))

\* the scope of a literal, falling back to All when it does not decode
scope_of_string_lenient(string) ==
    IF string = None THEN Return(RuleScope_All)
    ELSE Return(RuleScope_PathDefine(string[1]))

\* parse_scope falling back to All when the literal does not decode
parse_scope_lenient(prnt) ==
    IF prnt.inner = <<>> THEN UnwrapNone
    ELSE IF prnt.inner[1].rule = "string"
    THEN scope_of_string_lenient(unescape(prnt.inner[1].str))
    ELSE Return(RuleScope_All)

\* parse_scope decoding the text between the delimiters
parse_scope_trimmed(prnt) ==
    IF prnt.inner = <<>> THEN UnwrapNone
    ELSE IF prnt.inner[1].rule = "string"
    THEN scope_of_string(
            unescape(SubSeq(prnt.inner[1].str, 2, Len(prnt.inner[1].str) - 1)))
    ELSE Return(RuleScope_All)

parse_scope(prnt) ==
    IF prnt.inner = <<>> THEN UnwrapNone
    ELSE IF prnt.inner[1].rule = "string"
    THEN scope_of_string(unescape(prnt.inner[1].str))
    ELSE Return(RuleScope_All)

\* the match on the text of a rule_level node
rule_level(level) ==
    IF level = STR_module THEN Return("Module")
    ELSE IF level = STR_package THEN Return("Package")
    ELSE IF level = STR_function THEN Return("Function")
    ELSE IF level = STR_file THEN Return("File")
    ELSE IF level = STR_class THEN Return("Class")
    ELSE Panic("error rule level")

\* guard_rule.level = v, guard_rule.expr = v, ...: the assignment of an arm,
\* or the panic raised while computing v
with_level(rec, v) == IF IsPanic(v) THEN v ELSE Return([rec EXCEPT !.level = v.value])
with_expr(rec, v) == IF IsPanic(v) THEN v ELSE Return([rec EXCEPT !.expr = v.value])
with_ops(rec, v) == IF IsPanic(v) THEN v ELSE Return([rec EXCEPT !.ops = v.value])
with_scope(rec, v) == IF IsPanic(v) THEN v ELSE Return([rec EXCEPT !.scope = v.value])

\* one iteration where rule_level starts from a fresh default record
normal_rule_child_fresh_level(rec, p) ==
    IF p.rule = "rule_level" THEN with_level(GuardRule_default, rule_level(p.str))
    ELSE IF p.rule = "expression" THEN with_expr(rec, parse_expr(p))
    ELSE IF p.rule = "operator" THEN with_ops(rec, parse_operator(p))
    ELSE IF p.rule = "assert" THEN Return([rec EXCEPT !.assert = parse_assert(p)])
    ELSE IF p.rule = "scope" THEN with_scope(rec, parse_scope(p))
    ELSE Return(rec)

\* one iteration of the loop of parse_normal_rule: the record after child p,
\* or the panic raised while building p
normal_rule_child(rec, p) ==
    IF p.rule = "rule_level" THEN with_level(rec, rule_level(p.str))
    ELSE IF p.rule = "use_symbol" THEN Return(rec)
    ELSE IF p.rule = "expression" THEN with_expr(rec, parse_expr(p))
    ELSE IF p.rule = "operator" THEN with_ops(rec, parse_operator(p))
    ELSE IF p.rule = "assert" THEN Return([rec EXCEPT !.assert = parse_assert(p)])
    ELSE IF p.rule = "scope" THEN with_scope(rec, parse_scope(p))
    ELSE IF p.rule = "should" THEN Return(rec)
    ELSE Return(rec)

RECURSIVE normal_rule_loop(_, _)
\* the loop of parse_normal_rule: rec is Return(guard_rule so far) or the
\* panic that ended the loop, prs the children not yet visited
normal_rule_loop(rec, prs) ==
    IF IsPanic(rec) \/ prs = <<>> THEN rec
    ELSE normal_rule_loop(normal_rule_child(rec.value, Head(prs)), Tail(prs))

parse_normal_rule(pair) == normal_rule_loop(Return(GuardRule_default), pair.inner)

\* one iteration of the loop of the map closure over the children of a
\* declaration
declaration_child(p) ==
    IF p.rule = "normal_rule" THEN parse_normal_rule(p)
    ELSE IF p.rule = "layer_rule" THEN Return(GuardRule_default)
    ELSE Panic("unreachable content rule")

RECURSIVE declaration_loop(_, _)
\* the loop of the map closure: rule is Return(rule so far) or the panic
\* that ended the loop
declaration_loop(rule, prs) ==
    IF IsPanic(rule) \/ prs = <<>> THEN rule
    ELSE declaration_loop(declaration_child(Head(prs)), Tail(prs))

\* the map closure of consume_rules_with_spans
declaration_rule(pair) == declaration_loop(Return(GuardRule_default), pair.inner)

\* a filter that keeps every top-level pair
is_declaration_any(pair) == TRUE

\* the filter closure of consume_rules_with_spans
is_declaration(pair) == pair.rule = "declaration"

\* Vec::push during collect, unless the map closure panicked
push_rule(collected, rule) ==
    IF IsPanic(rule) THEN rule ELSE Return(Append(collected.value, rule.value))

RECURSIVE collect_rules(_, _)
\* filter, map and collect, pair by pair: collected is Return(the Vec so
\* far) or the panic that ended the iteration
collect_rules(collected, prs) ==
    IF IsPanic(collected) \/ prs = <<>> THEN collected
    ELSE IF ~is_declaration(Head(prs)) THEN collect_rules(collected, Tail(prs))
    ELSE collect_rules(push_rule(collected, declaration_rule(Head(prs))), Tail(prs))

consume_rules_with_spans(prs) == collect_rules(Return(<<>>), prs)

(***************************************************************************)
(* Inputs of unescape.                                                     *)
(***************************************************************************)
\* '"' '\'' '+' '0' 'A' '\\' 'n' 'q' 'r' 't' 'u' 'x' and the two-byte 'e-acute'
Alphabet ==
    {CH_QUOTE, CH_APOSTROPHE, CH_PLUS, CH_0, 65, CH_BACKSLASH, CH_n, 113,
     CH_r, CH_t, CH_u, CH_x, 233}

\* '0' '1' 'D': enough for scalar values on both sides of the surrogate
\* range and of char::MAX
HexSample == {CH_0, 49, 68}

HexRuns == UNION {[1..n -> HexSample] : n \in 0..MaxHexRun}

\* runs that are not hex digits only: "+41", "qq", one two-byte char, two
\* two-byte chars, one three-byte char
OddRuns == {<<CH_PLUS, 52, 49>>, <<113, 113>>, <<233>>, <<233, 233>>, <<8364>>}

\* what follows the run: nothing, the closing brace, the brace and an 'A'
Tails == {<<>>, <<CH_RBRACE>>, <<CH_RBRACE, 65>>}

\* what precedes a \u{...} escape: nothing, an 'A', the escape \n
UPrefixes == {<<>>, <<65>>, <<CH_BACKSLASH, CH_n>>}

unescape_vars == <<input, output>>
operator_vars == <<parent, operators>>
rule_vars == <<kids, guard_rule>>
decl_vars == <<pairs, rules>>

\* unescape(input + c)
PushChar(c) ==
    /\ Len(input) < MaxLen
    /\ input' = Append(input, c)
    /\ output' = unescape(input')
    /\ UNCHANGED <<operator_vars, rule_vars, decl_vars, default_level>>

\* unescape(input + "\u{" + run + tail)
PushUnicode ==
    /\ input \in UPrefixes
    /\ \E run \in HexRuns \cup OddRuns, tail \in Tails :
          input' = input \o <<CH_BACKSLASH, CH_u, CH_LBRACE>> \o run \o tail
    /\ output' = unescape(input')
    /\ UNCHANGED <<operator_vars, rule_vars, decl_vars, default_level>>

\* every function applied to its empty input; GuardRule::default() has one
\* of the given levels
Start(levels) ==
    /\ default_level \in levels
    /\ input = <<>>
    /\ output = unescape(input)
    /\ parent = Node("operator", <<>>, <<>>)
    /\ operators = parse_operator(parent)
    /\ kids = <<>>
    /\ guard_rule = parse_normal_rule(Node("normal_rule", <<>>, kids))
    /\ pairs = <<>>
    /\ rules = consume_rules_with_spans(pairs)

InitUnescape == Start({"Module"})

NextUnescape ==
    \/ \E c \in Alphabet : PushChar(c)
    \/ PushUnicode

SpecUnescape == InitUnescape /\ [][NextUnescape]_vars

(***************************************************************************)
(* Inputs of parse_operator.                                               *)
(***************************************************************************)
Leaf(rule) == Node(rule, <<>>, <<>>)

\* the eleven operator rules, the two negations, and two rules that are
\* no operator
OperatorLeafRules ==
    {"op_lte", "op_gte", "op_lt", "op_gt", "op_eq", "op_contains", "op_endsWith",
     "op_startsWith", "op_resideIn", "op_accessed", "op_dependBy",
     "op_not", "op_not_symbol", "string"}

\* a leaf, or a node that wraps one leaf (the operator after a negation)
OperatorChildren ==
    {Leaf(r) : r \in OperatorLeafRules \cup {"operator"}}
        \cup {Node("operator", <<>>, <<Leaf(r)>>) : r \in OperatorLeafRules}

\* parse_operator(parent with one more child)
PushOperatorChild(node) ==
    /\ Len(parent.inner) < MaxOpKids
    /\ parent' = [parent EXCEPT !.inner = Append(@, node)]
    /\ operators' = parse_operator(parent')
    /\ UNCHANGED <<unescape_vars, rule_vars, decl_vars, default_level>>

InitOperator == Start({"Module"})

NextOperator == \E node \in OperatorChildren : PushOperatorChild(node)

SpecOperator == InitOperator /\ [][NextOperator]_vars

(***************************************************************************)
(* Inputs of parse_normal_rule.  The children are drawn in any order and   *)
(* any number per tag: parse_normal_rule accepts every such list, the      *)
(* grammar produces those with at most one child per tag.                  *)
(***************************************************************************)
\* the literals "..myapp..", "\n" and "\u{A}", delimiters included
STR_myapp == <<34, 46, 46, 109, 121, 97, 112, 112, 46, 46, 34>>
STR_newline == <<34, 92, 110, 34>>
STR_one_digit == <<34, 92, 117, 123, 65, 125, 34>>
STR_name == <<110, 97, 109, 101>>

Identifier(str) == Node("identifier", str, <<>>)

ScopeOfString(str) == Node("scope", str, <<Node("string", str, <<>>)>>)

Operator(inner) == Node("operator", <<>>, inner)

NormalRuleChildren ==
    {Node("rule_level", STR_class, <<>>),
     Node("rule_level", STR_package, <<>>),
     ScopeOfString(STR_myapp),
     ScopeOfString(STR_newline),
     ScopeOfString(STR_one_digit),
     Node("scope", <<>>, <<Leaf("extends")>>),
     Node("expression", <<>>,
          <<Node("fn_call", <<>>, <<Identifier(STR_function), Identifier(STR_name)>>)>>),
     Node("expression", <<>>,
          <<Node("fn_call", <<>>, <<Identifier(STR_name), Leaf("arguments")>>)>>),
     Operator(<<Leaf("op_contains")>>),
     Operator(<<Leaf("op_not"), Operator(<<Leaf("op_endsWith")>>)>>),
     Operator(<<Leaf("string")>>),
     Leaf("assert"),
     Leaf("use_symbol"),
     Leaf("should"),
     Leaf("comment")}

NormalRule(inner) == Node("normal_rule", <<>>, inner)

\* parse_normal_rule(the normal_rule node with one more child)
PushChild(node) ==
    /\ Len(kids) < MaxKids
    /\ kids' = Append(kids, node)
    /\ guard_rule' = parse_normal_rule(NormalRule(kids'))
    /\ UNCHANGED <<unescape_vars, operator_vars, decl_vars, default_level>>

InitRule == Start(RuleLevel)

NextRule == \E node \in NormalRuleChildren : PushChild(node)

SpecRule == InitRule /\ [][NextRule]_vars

(***************************************************************************)
(* Inputs of consume_rules_with_spans.                                     *)
(***************************************************************************)
Declaration(inner) == Node("declaration", <<>>, inner)

FnCall(idents) == Node("expression", <<>>, <<Node("fn_call", <<>>, idents)>>)

\* class::name contains "Controller";
DeclRuleLevel ==
    Declaration(<<NormalRule(
        <<Node("rule_level", STR_class, <<>>), Leaf("use_symbol"),
          FnCall(<<Identifier(STR_name)>>),
          Operator(<<Leaf("op_contains")>>), Leaf("assert")>>)>>)

\* package("..myapp..")::function.name should not endsWith "";
DeclPackageAsset ==
    Declaration(<<NormalRule(
        <<Node("rule_level", STR_package, <<>>), ScopeOfString(STR_myapp),
          Leaf("use_symbol"),
          FnCall(<<Identifier(STR_function), Identifier(STR_name)>>), Leaf("should"),
          Operator(<<Leaf("op_not"), Operator(<<Leaf("op_endsWith")>>)>>),
          Leaf("assert")>>)>>)

\* class(assignable "EntityManager.class") resideIn package("..persistence.");
DeclContainerScope ==
    Declaration(<<NormalRule(
        <<Node("rule_level", STR_class, <<>>),
          Node("scope", <<>>, <<Leaf("assignable")>>),
          Operator(<<Leaf("op_resideIn")>>), Leaf("assert")>>)>>)

\* class("\u{A}")::name contains "";
DeclOneDigit ==
    Declaration(<<NormalRule(
        <<Node("rule_level", STR_class, <<>>), ScopeOfString(STR_one_digit),
          Leaf("use_symbol"), FnCall(<<Identifier(STR_name)>>),
          Operator(<<Leaf("op_contains")>>), Leaf("assert")>>)>>)

\* layer("onion")::domainModel("");
DeclLayer == Declaration(<<Leaf("layer_rule")>>)

\* the top-level pairs of a parse: declarations and the end-of-input node
TopLevelPairs ==
    {DeclRuleLevel, DeclPackageAsset, DeclContainerScope, DeclOneDigit, DeclLayer,
     Leaf("EOI")}

\* consume_rules_with_spans(pairs with one more pair)
PushPair(node) ==
    /\ Len(pairs) < MaxPairs
    /\ pairs' = Append(pairs, node)
    /\ rules' = consume_rules_with_spans(pairs')
    /\ UNCHANGED <<unescape_vars, operator_vars, rule_vars, default_level>>

InitParse == Start(RuleLevel)

NextParse == \E node \in TopLevelPairs : PushPair(node)

SpecParse == InitParse /\ [][NextParse]_vars

(***************************************************************************)
(* Properties of unescape.                                                 *)
(***************************************************************************)
HexDigits == (48..57) \cup (65..70) \cup (97..102)

AllHex(s) == \A k \in 1..Len(s) : s[k] \in HexDigits

HexDigitValue(c) == IF c <= 57 THEN c - 48 ELSE IF c <= 70 THEN c - 55 ELSE c - 87

RECURSIVE HexValue(_)
\* the number a run of hex digits denotes
HexValue(s) ==
    IF s = <<>> THEN 0
    ELSE 16 * HexValue(SubSeq(s, 1, Len(s) - 1)) + HexDigitValue(s[Len(s)])

\* a Unicode scalar value: 0..0xD7FF or 0xE000..0x10FFFF
IsScalar(v) == (0 <= v /\ v <= 55295) \/ (57344 <= v /\ v <= 1114111)

\* the position of the first closing brace at or after position k (0 if none)
ClosingBrace(k) ==
    IF \E j \in k..Len(input) : input[j] = 125
    THEN CHOOSE j \in k..Len(input) :
            input[j] = 125 /\ \A m \in k..(j - 1) : input[m] # 125
    ELSE 0

\* input is pre, then an escape \u{...} with its closing brace
UnicodeAfter(pre) ==
    /\ Len(input) >= Len(pre) + 4
    /\ SubSeq(input, 1, Len(pre) + 3) = pre \o <<92, 117, 123>>
    /\ ClosingBrace(Len(pre) + 4) # 0

\* the characters between the braces of that escape, and those after it
RunAfter(pre) == SubSeq(input, Len(pre) + 4, ClosingBrace(Len(pre) + 4) - 1)
RestAfter(pre) == SubSeq(input, ClosingBrace(Len(pre) + 4) + 1, Len(input))

\* what the prefixes of UPrefixes stand for: nothing, 'A', the line feed
PrefixText(pre) == IF pre = <<92, 110>> THEN <<10>> ELSE pre

\* the escape after pre has between least and 6 hex digits that denote a
\* Unicode scalar value, and no escape follows it
DecodableUnicodeAfter(pre, least) ==
    /\ UnicodeAfter(pre)
    /\ AllHex(RunAfter(pre))
    /\ Len(RunAfter(pre)) >= least
    /\ Len(RunAfter(pre)) <= 6
    /\ IsScalar(HexValue(RunAfter(pre)))
    /\ \A k \in 1..Len(RestAfter(pre)) : RestAfter(pre)[k] # 92

\* the input with the escape replaced by the one character it denotes
WithScalar(pre) == PrefixText(pre) \o <<HexValue(RunAfter(pre))>> \o RestAfter(pre)

\* C6 as claimed: every escape \u{H..H} of 1 to 6 hex digits that denotes a
\* Unicode scalar value is consumed and replaced by exactly the one
\* character with that value.
C6_UnicodeOneToSix ==
    \A pre \in UPrefixes :
        DecodableUnicodeAfter(pre, 1) => output = Some(WithScalar(pre))

\* C6 as amended: every escape \u{H..H} of 2 to 6 hex digits that denotes a
\* Unicode scalar value is consumed and replaced by exactly the one
\* character with that value.
C6_UnicodeTwoToSix ==
    \A pre \in UPrefixes :
        DecodableUnicodeAfter(pre, 2) => output = Some(WithScalar(pre))

\* \u{10DDDD} followed by 'A'
C6_Witness ==
    /\ input = <<92, 117, 123, 49, 48, 68, 68, 68, 68, 125, 65>>
    /\ output = Some(<<1105373, 65>>)

\* the escape letters unescape knows: " \ r n t 0 ' x u
EscapeLetters == {34, 92, 114, 110, 116, 48, 39, 120, 117}

\* the input up to (not including) position i decodes, so that the
\* backslash at i starts an escape
DecodesBefore(i) == unescape(SubSeq(input, 1, i - 1)) # None

\* the backslash at position i starts an escape that cannot be decoded
BadEscapeAt(i) ==
    /\ input[i] = 92
    /\ \/ i = Len(input)
       \/ /\ i < Len(input)
          /\ \/ input[i + 1] \notin EscapeLetters
             \/ input[i + 1] = 120 /\ Len(input) - (i + 1) < 2
             \/ input[i + 1] = 117 /\ (i + 2 > Len(input) \/ input[i + 2] # 123)
             \/ /\ input[i + 1] = 117
                /\ i + 2 <= Len(input)
                /\ input[i + 2] = 123
                /\ ClosingBrace(i + 3) # 0
                /\ LET run == SubSeq(input, i + 3, ClosingBrace(i + 3) - 1) IN
                   \/ Len(run) < 2
                   \/ Len(run) > 6
                   \/ AllHex(run) /\ ~IsScalar(HexValue(run))

\* C7: unescape returns None when, at the first point where decoding cannot
\* continue, the input has a trailing backslash, an unknown escape letter,
\* a \x with fewer than two characters left, a \u without '{', a \u{...}
\* with fewer than 2 or more than 6 characters before the '}', or a \u{...}
\* whose value is no Unicode scalar value.
C7_BadEscapeIsNone ==
    \A i \in 1..Len(input) : (DecodesBefore(i) /\ BadEscapeAt(i)) => output = None

\* \u{DD00}, a surrogate, after the decodable prefix "A"
C7_Witness ==
    /\ input = <<65, 92, 117, 123, 68, 68, 48, 48, 125>>
    /\ output = None

\* input is exactly \x followed by the two characters c1 c2
IsHexEscape(c1, c2) == input = <<CH_BACKSLASH, CH_x, c1, c2>>

\* C8: \x is accepted iff the two characters after the x are both hex
\* digits, and then decodes to the character with that two-digit value;
\* for every other pair unescape returns None.
C8_HexEscapeIffTwoHexDigits ==
    \A c1, c2 \in Alphabet :
        IsHexEscape(c1, c2) =>
            IF c1 \in HexDigits /\ c2 \in HexDigits
            THEN output = Some(<<16 * HexDigitValue(c1) + HexDigitValue(c2)>>)
            ELSE output = None

\* the characters of the two-character escapes and what they stand for
SimpleLetters == {34, 92, 114, 110, 116, 48, 39}

SimpleCharacter(c) ==
    CASE c = 34 -> 34 [] c = 92 -> 92 [] c = 114 -> 13 [] c = 110 -> 10
      [] c = 116 -> 9 [] c = 48 -> 0 [] c = 39 -> 39

RECURSIVE IsSimple(_)
\* s is made of non-backslash characters and two-character escapes only
IsSimple(s) ==
    IF s = <<>> THEN TRUE
    ELSE IF s[1] # 92 THEN IsSimple(Tail(s))
    ELSE Len(s) >= 2 /\ s[2] \in SimpleLetters /\ IsSimple(Tail(Tail(s)))

RECURSIVE Replaced(_)
\* s with each two-character escape replaced by its character
Replaced(s) ==
    IF s = <<>> THEN <<>>
    ELSE IF s[1] # 92 THEN <<s[1]>> \o Replaced(Tail(s))
    ELSE <<SimpleCharacter(s[2])>> \o Replaced(Tail(Tail(s)))

\* C9: on an input of non-backslash characters and the escapes
\* \" \\ \r \n \t \0 \' unescape succeeds with each escape replaced in
\* place by its character; it is the identity without a backslash, and the
\* output is never longer than the input.
C9_SimpleEscapes ==
    /\ IsSimple(input) => output = Some(Replaced(input))
    /\ (\A k \in 1..Len(input) : input[k] # 92) => output = Some(input)
    /\ output # None => Len(output[1]) <= Len(input)

\* "A\tq" followed by the two-byte character decodes to A, TAB, q, e-acute
C9_Witness ==
    /\ input = <<65, 92, 116, 233>>
    /\ output = Some(<<65, 9, 233>>)

(***************************************************************************)
(* Properties of parse_operator.                                           *)
(***************************************************************************)
\* the comparison and string operators, by the rule of their node
KnownOperators ==
    [r \in {"op_lte", "op_gte", "op_lt", "op_gt", "op_eq", "op_contains",
            "op_endsWith", "op_startsWith", "op_resideIn", "op_accessed",
            "op_dependBy"} |->
        CASE r = "op_lte" -> "Lte" [] r = "op_gte" -> "Gte" [] r = "op_lt" -> "Lt"
          [] r = "op_gt" -> "Gt" [] r = "op_eq" -> "Eq"
          [] r = "op_contains" -> "Contains" [] r = "op_endsWith" -> "Endswith"
          [] r = "op_startsWith" -> "StartsWith" [] r = "op_resideIn" -> "ResideIn"
          [] r = "op_accessed" -> "Accessed" [] r = "op_dependBy" -> "DependBy"]

ComparisonOperators == {KnownOperators[r] : r \in DOMAIN KnownOperators}

Negations == {"op_not", "op_not_symbol"}

\* C3: parse_operator returns exactly [Not, op] when the first child is a
\* negation, op being mapped from the first child of the next child, and
\* exactly [op] otherwise, op being mapped from the first child; op is one
\* of the eleven operators, any other rule aborts, and the result never has
\* more than two elements.
C3_OperatorList ==
    LET prs == parent.inner IN
    /\ (prs # <<>> /\ prs[1].rule \notin Negations) =>
          IF prs[1].rule \in DOMAIN KnownOperators
          THEN operators = Return(<<KnownOperators[prs[1].rule]>>)
          ELSE IsPanic(operators)
    /\ (Len(prs) >= 2 /\ prs[1].rule \in Negations /\ prs[2].inner # <<>>) =>
          IF prs[2].inner[1].rule \in DOMAIN KnownOperators
          THEN operators = Return(<<"Not", KnownOperators[prs[2].inner[1].rule]>>)
          ELSE IsPanic(operators)
    /\ ~IsPanic(operators) =>
          /\ Len(operators.value) \in {1, 2}
          /\ operators.value[Len(operators.value)] \in ComparisonOperators

\* "! <=": the symbolic negation before a wrapped op_lte
C3_Witness ==
    /\ parent.inner = <<Leaf("op_not_symbol"), Node("operator", <<>>, <<Leaf("op_lte")>>)>>
    /\ operators = Return(<<"Not", "Lte">>)

(***************************************************************************)
(* Properties of parse_normal_rule.                                        *)
(***************************************************************************)
IsScope(p) == p.rule = "scope"

\* the scope children of the normal_rule node
ScopeChildren == SelectSeq(kids, IsScope)

\* building the child p aborts
ChildAborts(p) == IsPanic(normal_rule_child(GuardRule_default, p))

\* no child other than a scope child aborts
OnlyScopeMayAbort == \A k \in 1..Len(kids) : IsScope(kids[k]) \/ ~ChildAborts(kids[k])

\* C4: the scope of the record is All without a scope child; with a scope
\* child whose first inner node is a string literal it is PathDefine(s),
\* s = unescape(literal), and a failing unescape aborts with "incorrect
\* string literal"; with a scope child of any other shape it is All and the
\* scope child does not abort the parse.
C4_Scope ==
    /\ (ScopeChildren = <<>> /\ ~IsPanic(guard_rule)) =>
          guard_rule.value.scope = RuleScope_All
    /\ Len(ScopeChildren) = 1 =>
          LET first == ScopeChildren[1].inner[1] IN
          IF first.rule = "string"
          THEN IF unescape(first.str) = None
               THEN /\ IsPanic(guard_rule)
                    /\ OnlyScopeMayAbort =>
                          guard_rule = Panic("incorrect string literal")
               ELSE /\ OnlyScopeMayAbort => ~IsPanic(guard_rule)
                    /\ ~IsPanic(guard_rule) =>
                          guard_rule.value.scope =
                              RuleScope_PathDefine(unescape(first.str)[1])
          ELSE /\ OnlyScopeMayAbort => ~IsPanic(guard_rule)
               /\ ~IsPanic(guard_rule) => guard_rule.value.scope = RuleScope_All

\* class("\n"): the scope is the quote, the line feed and the quote
C4_Witness ==
    /\ kids = <<Node("rule_level", STR_class, <<>>), ScopeOfString(STR_newline)>>
    /\ guard_rule.value.scope = RuleScope_PathDefine(<<34, 10, 34>>)

\* C5: the PathDefine of a scope written as a string literal keeps the
\* literal's two double quotes; for ("..myapp..") it is the 11-character
\* string with both quotes.
C5_ScopeKeepsQuotes ==
    (Len(ScopeChildren) = 1 /\ ScopeChildren[1].inner[1].rule = "string"
        /\ ~IsPanic(guard_rule)) =>
        LET literal == ScopeChildren[1].inner[1].str
            scope == guard_rule.value.scope
        IN
        /\ scope.kind = "PathDefine"
        /\ Len(scope.path) >= 2
        /\ scope.path[1] = 34
        /\ scope.path[Len(scope.path)] = 34
        /\ literal = STR_myapp => (scope.path = STR_myapp /\ Len(scope.path) = 11)

\* class("..myapp..")
C5_Witness ==
    /\ kids = <<Node("rule_level", STR_class, <<>>), ScopeOfString(STR_myapp)>>
    /\ guard_rule.value.scope = RuleScope_PathDefine(STR_myapp)
    /\ Len(guard_rule.value.scope.path) = 11

\* the orders in which n children can be visited, for every n up to MaxKids
AllOrders ==
    [n \in 0..MaxKids |->
        {f \in [1..n -> 1..n] : \A i, j \in 1..n : i # j => f[i] # f[j]}]

Orders(n) == AllOrders[n]

\* the children visited in the order f
Reordered(f) == [i \in 1..Len(kids) |-> kids[f[i]]]

\* the tags whose children set a field that depends on the child
FieldTags == {"rule_level", "scope", "expression", "operator"}

\* no tag of FieldTags occurs more than once among the children
FieldTagsOnce ==
    \A i, j \in 1..Len(kids) :
        (i # j /\ kids[i].rule \in FieldTags) => kids[i].rule # kids[j].rule

\* C10 as claimed: visiting the children in any other order yields an
\* identical record, also when a tag occurs more than once.
C10_AnyOrderSameRecord ==
    \A f \in Orders(Len(kids)) :
        LET other == parse_normal_rule(NormalRule(Reordered(f))) IN
        (~IsPanic(guard_rule) /\ ~IsPanic(other)) => other = guard_rule

\* C10 as amended: when none of rule_level, scope, expression and operator
\* occurs more than once among the children, visiting them in any other
\* order aborts exactly when the original order aborts, and otherwise
\* yields an identical record.
C10_AnyOrderSameRecordOnce ==
    FieldTagsOnce =>
        \A f \in Orders(Len(kids)) :
            LET other == parse_normal_rule(NormalRule(Reordered(f))) IN
            /\ IsPanic(other) <=> IsPanic(guard_rule)
            /\ ~IsPanic(guard_rule) => other = guard_rule

\* the operator, the scope and the level, visited in that order
C10_Witness ==
    /\ kids = <<Operator(<<Leaf("op_contains")>>), ScopeOfString(STR_myapp),
                Node("rule_level", STR_package, <<>>)>>
    /\ guard_rule = Return([level |-> "Package",
                            scope |-> RuleScope_PathDefine(STR_myapp),
                            expr |-> Expr_PropsCall(<<>>),
                            ops |-> <<"Contains">>,
                            assert |-> "Empty"])

(***************************************************************************)
(* Properties of consume_rules_with_spans.                                 *)
(***************************************************************************)
IsDeclaration(p) == p.rule = "declaration"

\* the top-level declaration nodes, in source order
Declarations == SelectSeq(pairs, IsDeclaration)

\* the record of a declaration with one child
RecordOf(declaration) ==
    IF declaration.inner[1].rule = "layer_rule"
    THEN Return(GuardRule_default)
    ELSE parse_normal_rule(declaration.inner[1])

\* C1: parse returns one record per top-level declaration node, in source
\* order, and nothing for the other top-level nodes (it returns unless
\* building a declaration aborts); one declaration yields a list of length 1.
C1_OneRecordPerDeclaration ==
    IF \E i \in 1..Len(Declarations) : IsPanic(RecordOf(Declarations[i]))
    THEN IsPanic(rules)
    ELSE /\ ~IsPanic(rules)
         /\ Len(rules.value) = Len(Declarations)
         /\ \A i \in 1..Len(Declarations) :
               rules.value[i] = RecordOf(Declarations[i]).value
         /\ Len(Declarations) = 1 => Len(rules.value) = 1

\* two declarations and the end-of-input node
C1_Witness ==
    /\ pairs = <<DeclPackageAsset, DeclRuleLevel, Leaf("EOI")>>
    /\ ~IsPanic(rules)
    /\ Len(rules.value) = 2
    /\ rules.value[1].level = "Package"
    /\ rules.value[2].level = "Class"

\* C2: every record parse returns has 1 or 2 operators, the last a
\* comparison or string operator and, when there are 2, the first the
\* negation; and its property-access chain has at least one segment.
C2_RecordInvariants ==
    ~IsPanic(rules) =>
        \A i \in 1..Len(rules.value) :
            LET ops == rules.value[i].ops IN
            /\ Len(ops) \in {1, 2}
            /\ ops[Len(ops)] \in ComparisonOperators
            /\ Len(ops) = 2 => ops[1] = "Not"
            /\ Len(rules.value[i].expr.chain) >= 1

====
